---- MODULE Spec2Model ----
(***************************************************************************)
(* Model of the snake game: Snake, Apple and Board of game.py, the         *)
(* heuristic autoplay of algorithm.py and the event handler of             *)
(* interactive.py.                                                         *)
(*                                                                         *)
(* Positions are Python tuples (x, y), modelled as <<x, y>> (so p[1] is    *)
(* the code's location[0]).  A cell drawn from empty_spaces is modelled as  *)
(* the position it denotes: add_apple() places the apple on the drawn      *)
(* cell, as its documentation says (as written, `if location:` is asked of *)
(* an index array).  The Game class the two drivers import is modelled as  *)
(* one Board with one Snake.                                               *)
(***************************************************************************)
EXTENDS Integers, Sequences, FiniteSets, TLC

\* ---------------------------------------------------------------- bounds
MaxTicks == 4
MaxBatch == 2
InitHealth == 3
MaxLength == 3
MaxHealth == 14
MaxPlaceTicks == 2

\* ------------------------------------------------------ program constants
APPLE_HEALTH == 10
APPLE_GROWTH == 1
NUM_APPLES == 2
DEFAULT_COST == 0

\* ----------------------------------------------------------------- inputs
\* Board(width, height)
Shapes == {<<3, 2>>, <<4, 1>>}

\* the cost argument of Snake.move_to: 0 is its default, 1 the cost its
\* documentation describes, 2 a cost that can step over health 0
Costs == {0, 1, 2}

VARIABLES
    width,      \* Board.width
    height,     \* Board.height
    snakes,     \* Board.snakes: list of Snake
    apples,     \* Board.apples: set of Apple objects
    empty,      \* Board.empty: grid, TRUE = empty, FALSE = occupied
    made,       \* number of Apple objects created so far (object identities)
    cost,       \* the per-move health cost of this episode
    game_over,  \* set by `game.ended = True`
    raised,     \* the exception that ended the program, or "none"
    ticks,      \* number of moves made so far
    last        \* the last operation, with the state it started from

vars == <<width, height, snakes, apples, empty, made, cost, game_over, raised,
          ticks, last>>

\* ----------------------------------------------------------------- values
None == <<>>

\* Python truth value of a tuple-or-None.
Truthy(x) == Len(x) > 0

Cells(w, h) == (0 .. w - 1) \X (0 .. h - 1)

\* Row-major rank of a cell, the order in which empty_spaces lists the cells.
Rank(p) == p[1] * 8 + p[2]

\* class Snake: the fields set by the constructor.
Snake(location, health) ==
    [health |-> health, growth |-> 0, body |-> <<location>>, previous_tail |-> None]

\* class Apple (id stands for the identity of the object)
Apple(id, location, health, growth) ==
    [id |-> id, location |-> location, health |-> health, growth |-> growth]

\* ------------------------------------------------------------------ Snake
\* move_to with the growing branch forgetting to take one off growth.
move_to_growth_kept(snake, location, c) ==
    IF snake.growth > 0
    THEN [snake EXCEPT !.previous_tail = None,
                       !.body = <<location>> \o snake.body,
                       !.health = snake.health - c]
    ELSE [snake EXCEPT !.previous_tail = snake.body[Len(snake.body)],
                       !.body = <<location>> \o SubSeq(snake.body, 1, Len(snake.body) - 1),
                       !.health = snake.health - c]

move_to(snake, location, c) ==
    IF snake.growth > 0
    THEN [snake EXCEPT !.previous_tail = None,
                       !.body = <<location>> \o snake.body,
                       !.growth = snake.growth - 1,
                       !.health = snake.health - c]
    ELSE [snake EXCEPT !.previous_tail = snake.body[Len(snake.body)],
                       !.body = <<location>> \o SubSeq(snake.body, 1, Len(snake.body) - 1),
                       !.health = snake.health - c]

move_up(snake) == <<snake.body[1][1], snake.body[1][2] - 1>>

move_down(snake) == <<snake.body[1][1], snake.body[1][2] + 1>>

move_left(snake) == <<snake.body[1][1] - 1, snake.body[1][2]>>

move_right(snake) == <<snake.body[1][1] + 1, snake.body[1][2]>>

\* ------------------------------------------------------------------ Board
\* Indexing the width x height grid with a tuple: an index in [-n, n) is
\* accepted (a negative one counts from the end), any other raises
\* IndexError.
IndexOk(b, p) ==
    /\ p[1] \in (-b.width) .. (b.width - 1)
    /\ p[2] \in (-b.height) .. (b.height - 1)

Index(b, p) == <<p[1] % b.width, p[2] % b.height>>

\* sum(snake.health for snake in self.snakes)
RECURSIVE SumHealth(_)
SumHealth(ss) == IF ss = <<>> THEN 0 ELSE ss[1].health + SumHealth(Tail(ss))

ended(b) == SumHealth(b.snakes) = 0

empty_spaces(b) == {c \in Cells(b.width, b.height) : b.empty[c]}

Outcome(b, exc, eaten, spawned) ==
    [board |-> b, raised |-> exc, eaten |-> eaten, spawned |-> spawned]

\* add_apple(location) placing the apple whether or not the cell is empty.
add_apple_at_unchecked(b, location) ==
    Outcome([b EXCEPT
               !.apples = b.apples \cup
                   {Apple(b.made + 1, location, APPLE_HEALTH, APPLE_GROWTH)},
               !.made = b.made + 1,
               !.empty = [b.empty EXCEPT ![Index(b, location)] = FALSE]],
            "none", {}, location)

\* add_apple(location) with an explicit location and the default rewards.
add_apple_at(b, location) ==
    IF ~IndexOk(b, location)
    THEN Outcome(b, "IndexError", {}, None)
    ELSE IF b.empty[Index(b, location)]
    THEN Outcome([b EXCEPT
                    !.apples = b.apples \cup
                        {Apple(b.made + 1, location, APPLE_HEALTH, APPLE_GROWTH)},
                    !.made = b.made + 1,
                    !.empty = [b.empty EXCEPT ![Index(b, location)] = FALSE]],
                 "none", {}, location)
    ELSE Outcome(b, "RuntimeError", {}, None)

\* add_apple() placing the apple on some cell when none is empty.
add_apple_forced(b) ==
    IF empty_spaces(b) = {}
    THEN {add_apple_at_unchecked(b, location) : location \in Cells(b.width, b.height)}
    ELSE {add_apple_at(b, location) : location \in empty_spaces(b)}

\* add_apple() giving up although empty cells are left.
add_apple_skipped(b) ==
    {Outcome(b, "none", {}, None)} \cup
        {add_apple_at(b, location) : location \in empty_spaces(b)}

\* add_apple() without a location: every outcome random.choice can produce.
add_apple(b) ==
    IF empty_spaces(b) = {}
    THEN {Outcome(b, "RuntimeWarning", {}, None)}
    ELSE {add_apple_at(b, location) : location \in empty_spaces(b)}

\* add_snake(location, health=health) with an explicit location.
add_snake_at(b, location, health) ==
    IF ~IndexOk(b, location)
    THEN Outcome(b, "IndexError", {}, None)
    ELSE IF b.empty[Index(b, location)]
    THEN Outcome([b EXCEPT
                    !.snakes = Append(b.snakes, Snake(location, health)),
                    !.empty = [b.empty EXCEPT ![Index(b, location)] = FALSE]],
                 "none", {}, location)
    ELSE Outcome(b, "RuntimeError", {}, None)

\* off_grid without the check against negative coordinates.
off_grid_upper(b, h) == h[1] >= b.width \/ h[2] >= b.height

\* The two checks of whether the snake's head is still on the grid.
off_grid(b, h) == (h[1] < 0 \/ h[2] < 0) \/ (h[1] >= b.width \/ h[2] >= b.height)

\* eat_apple with the eaten apple left in the apple set.
eat_apple_kept(b, i, apple) ==
    LET h == b.snakes[i].body[1]
        fed == [b EXCEPT
                  !.snakes[i].health = b.snakes[i].health + apple.health,
                  !.snakes[i].growth = b.snakes[i].growth + apple.growth,
                  !.empty = [b.empty EXCEPT ![Index(b, h)] = TRUE]]
    IN {[o EXCEPT !.eaten = {apple}] : o \in add_apple(fed)}

\* The body of the apple loop for the apple the head is on: the snake is
\* fed, the apple removed, the head's cell marked empty and a new apple added.
eat_apple(b, i, apple) ==
    LET h == b.snakes[i].body[1]
        fed == [b EXCEPT
                  !.snakes[i].health = b.snakes[i].health + apple.health,
                  !.snakes[i].growth = b.snakes[i].growth + apple.growth,
                  !.apples = b.apples \ {apple},
                  !.empty = [b.empty EXCEPT ![Index(b, h)] = TRUE]]
    IN {[o EXCEPT !.eaten = {apple}] : o \in add_apple(fed)}

\* process_move(snake) for the snake at index i: the set of its outcomes (one
\* per apple the loop can meet first and per cell the spawner can draw).
process_move(b, i) ==
    LET snake == b.snakes[i]
        tail == snake.previous_tail
        freed == IF Truthy(tail)
                 THEN [b EXCEPT !.empty = [b.empty EXCEPT ![Index(b, tail)] = TRUE]]
                 ELSE b
        h == snake.body[1]
        dead == [freed EXCEPT !.snakes[i].health = 0]
        hit == {apple \in freed.apples : h = apple.location}
    IN  IF Truthy(tail) /\ ~IndexOk(b, tail)
        THEN {Outcome(b, "IndexError", {}, None)}
        ELSE IF off_grid(b, h)
        THEN {Outcome(dead, "none", {}, None)}
        ELSE IF hit # {}
        THEN UNION {eat_apple(freed, i, apple) : apple \in hit}
        ELSE IF ~freed.empty[Index(b, h)]
        THEN {Outcome(dead, "none", {}, None)}
        ELSE {Outcome([freed EXCEPT !.empty = [freed.empty EXCEPT ![Index(b, h)] = FALSE]],
                      "none", {}, None)}

\* ------------------------------------------------------------------- Game
Board ==
    [width |-> width, height |-> height, snakes |-> snakes, apples |-> apples,
     empty |-> empty, made |-> made]

\* One tick on board b: the snake moves its head to target at cost c, then
\* the board processes the move.
tick(b, target, c) ==
    process_move([b EXCEPT !.snakes[1] = move_to(b.snakes[1], target, c)], 1)

game_ended(b, over) == over \/ ended(b)

game_snake_head(b) == b.snakes[1].body[1]

game_apples(b) == {apple.location : apple \in b.apples}

Moves == {"up", "down", "left", "right"}

MoveTarget(snake, m) ==
    CASE m = "up" -> move_up(snake)
      [] m = "down" -> move_down(snake)
      [] m = "left" -> move_left(snake)
      [] m = "right" -> move_right(snake)

Record(op, target, events, trail) ==
    [op |-> op, target |-> target, pre |-> Board, over |-> game_over,
     moved |-> IF Truthy(target) THEN move_to(snakes[1], target, cost) ELSE None,
     events |-> events, trail |-> trail]

\* The variables after a run of ticks whose outcomes are trail.
Commit(op, target, events, trail, counted) ==
    LET o == trail[Len(trail)]
    IN  /\ snakes' = o.board.snakes
        /\ apples' = o.board.apples
        /\ empty' = o.board.empty
        /\ made' = o.board.made
        /\ raised' = o.raised
        /\ ticks' = IF counted THEN ticks + Len(trail) ELSE ticks
        /\ last' = Record(op, target, events, trail)
        /\ UNCHANGED <<width, height, cost>>

\* A caller moving the snake one step while the game has not ended.
Move(m) ==
    /\ raised = "none"
    /\ ~ended(Board)
    /\ ticks < MaxTicks
    /\ LET target == MoveTarget(snakes[1], m)
       IN \E o \in tick(Board, target, cost) : Commit("move", target, <<m>>, <<o>>, TRUE)
    /\ UNCHANGED game_over

\* ------------------------------------------------------------------- Init
\* The board after construction: Board(width, height, snakes=0, apples=0),
\* add_snake(location, health=InitHealth), then NUM_APPLES apples added on
\* cells that are empty.
Init ==
    /\ cost \in Costs
    /\ game_over = FALSE
    /\ raised = "none"
    /\ ticks = 0
    /\ made = NUM_APPLES
    /\ last = [op |-> "init", target |-> None, pre |-> None, over |-> FALSE,
               moved |-> None, events |-> <<>>, trail |-> <<>>]
    /\ \E shape \in Shapes :
       \E location \in Cells(shape[1], shape[2]) :
       \E first, second \in Cells(shape[1], shape[2]) \ {location} :
          /\ Rank(first) < Rank(second)
          /\ width = shape[1]
          /\ height = shape[2]
          /\ snakes = <<Snake(location, InitHealth)>>
          /\ apples = {Apple(1, first, APPLE_HEALTH, APPLE_GROWTH),
                       Apple(2, second, APPLE_HEALTH, APPLE_GROWTH)}
          /\ empty = [c \in Cells(shape[1], shape[2]) |->
                         c # location /\ c # first /\ c # second]

\* ------------------------------------------------------------ algorithm.py
\* The episodes followed to their end are cut where the snake is this long
\* or its health this far from 0.
Capped(b) ==
    \/ Len(b.snakes[1].body) >= MaxLength
    \/ b.snakes[1].health >= MaxHealth
    \/ b.snakes[1].health <= -MaxHealth

\* The four neighbours of the snake's head.
directions(b) ==
    LET hd == game_snake_head(b)
    IN {<<hd[1] + 1, hd[2]>>, <<hd[1] - 1, hd[2]>>,
        <<hd[1], hd[2] + 1>>, <<hd[1], hd[2] - 1>>}

\* apple_directions never finding an apple next to the head.
apple_directions_none(b) == directions(b) \cap {}

apple_directions(b) == directions(b) \cap game_apples(b)

\* valid_directions taking every neighbour on the grid, occupied or not.
valid_directions_on_grid(b) == directions(b) \cap Cells(b.width, b.height)

valid_directions(b) == directions(b) \cap empty_spaces(b)

\* random_walk(game), called by run_random_walk while the game has not ended.
\* live = TRUE leaves the tick counter alone and stops at MaxLength/MaxHealth.
random_walk(live) ==
    /\ raised = "none"
    /\ ~game_ended(Board, game_over)
    /\ LET go(targets) ==
               /\ IF live THEN ~Capped(Board) ELSE ticks < MaxTicks
               /\ \E target \in targets : \E o \in tick(Board, target, cost) :
                     Commit("random_walk", target, <<>>, <<o>>, ~live)
               /\ UNCHANGED game_over
       IN  IF apple_directions(Board) # {}
           THEN go(apple_directions(Board))
           ELSE IF valid_directions(Board) # {}
           THEN go(valid_directions(Board))
           ELSE /\ game_over' = TRUE
                /\ last' = Record("random_walk", None, <<>>, <<>>)
                /\ UNCHANGED <<width, height, snakes, apples, empty, made, cost,
                               raised, ticks>>

RandomWalk == random_walk(FALSE)

SpecAuto == Init /\ [][RandomWalk]_vars

\* run_random_walk: the loop calls random_walk again for as long as the game
\* has not ended.
RunRandomWalk == random_walk(TRUE)

SpecRun == Init /\ [][RunRandomWalk]_vars /\ WF_vars(RunRandomWalk)

\* ---------------------------------------------------------- interactive.py
\* The runs of handle_events over the key presses of one batch: each press
\* moves the snake; an exception ends the run.
RECURSIVE handle_events(_, _, _)
handle_events(b, events, c) ==
    IF events = <<>>
    THEN {<<>>}
    ELSE UNION {IF o.raised # "none"
                THEN {<<o>>}
                ELSE {<<o>> \o rest : rest \in handle_events(o.board, Tail(events), c)} :
                    o \in tick(b, MoveTarget(b.snakes[1], Head(events)), c)}

Batches == UNION {[1 .. n -> Moves] : n \in 1 .. MaxBatch}

\* handle_events(game), called by main while the game has not ended.
HandleEvents ==
    /\ raised = "none"
    /\ ~game_ended(Board, game_over)
    /\ \E events \in Batches :
          /\ ticks + Len(events) <= MaxTicks
          /\ \E trail \in handle_events(Board, events, cost) :
                Commit("handle_events", None, events, trail, TRUE)
    /\ UNCHANGED game_over

SpecManual == Init /\ [][HandleEvents]_vars

\* ------------------------------------------------- moves at the default cost
\* move_up(), move_down(), move_left(), move_right() called without a cost,
\* then process_move.
MoveDefault(m) ==
    /\ raised = "none"
    /\ ~ended(Board)
    /\ ticks < MaxTicks
    /\ LET target == MoveTarget(snakes[1], m)
       IN \E o \in tick(Board, target, DEFAULT_COST) :
            /\ snakes' = o.board.snakes
            /\ apples' = o.board.apples
            /\ empty' = o.board.empty
            /\ made' = o.board.made
            /\ raised' = o.raised
            /\ last' = [Record("move_default", target, <<m>>, <<o>>) EXCEPT
                          !.moved = move_to(snakes[1], target, DEFAULT_COST)]
    /\ ticks' = ticks + 1
    /\ UNCHANGED <<width, height, cost, game_over>>

SpecDefault == Init /\ [][\E m \in Moves : MoveDefault(m)]_vars

\* ------------------------------------------------------------- placements
\* A placement requested by a caller that catches the exception it may raise
\* (the exception is kept in the record of the operation).
Place(op, target, o) ==
    /\ ticks < MaxPlaceTicks
    /\ snakes' = o.board.snakes
    /\ apples' = o.board.apples
    /\ empty' = o.board.empty
    /\ made' = o.board.made
    /\ ticks' = ticks + 1
    /\ last' = [Record(op, None, <<>>, <<o>>) EXCEPT !.target = target]
    /\ UNCHANGED <<width, height, cost, game_over, raised>>

AddAppleAt ==
    \E location \in Cells(width, height) :
        Place("add_apple_at", location, add_apple_at(Board, location))

AddApple == \E o \in add_apple(Board) : Place("add_apple", None, o)

AddSnakeAt ==
    \E location \in Cells(width, height) :
        Place("add_snake_at", location, add_snake_at(Board, location, InitHealth))

MoveEarly == ticks < MaxPlaceTicks /\ \E m \in Moves : Move(m)

SpecPlace == Init /\ [][AddAppleAt \/ AddApple \/ AddSnakeAt \/ MoveEarly]_vars

Next == \E m \in Moves : Move(m)

Spec == Init /\ [][Next]_vars

\* ================================================================ claims
Segments(snake) == {snake.body[k] : k \in 1 .. Len(snake.body)}

OnGrid(p) == p[1] \in 0 .. width - 1 /\ p[2] \in 0 .. height - 1

\* The game is running: no exception, and the snake has health left.
Running == raised = "none" /\ snakes[1].health > 0

\* The snake before the last operation, and the outcome of its (first) tick.
Before == last.pre.snakes[1]

Result == last.trail[1]

\* C1: while the game is running, a cell is marked occupied in the grid if
\* and only if it is a segment of the snake or the position of an apple.
C1_OccupancyInvariant ==
    Running =>
        \A c \in Cells(width, height) :
            (~empty[c]) <=> (c \in Segments(snakes[1]) \/ c \in game_apples(Board))

C3_GrowthLaw ==
    /\ snakes[1].growth >= 0
    /\ last.op = "move" =>
          /\ last.moved.growth >= 0
          /\ Before.growth > 0 =>
                /\ Len(snakes[1].body) = Len(Before.body) + 1
                /\ last.moved.growth = Before.growth - 1
                /\ snakes[1].previous_tail = None
          /\ ~(Before.growth > 0) =>
                /\ Len(snakes[1].body) = Len(Before.body)
                /\ last.moved.growth = 0
                /\ snakes[1].previous_tail = Before.body[Len(Before.body)]

C3_Witness ==
    /\ last.op = "move"
    /\ Before.growth > 0
    /\ Len(snakes[1].body) = 2
    /\ snakes[1].previous_tail = None

\* C4: a living snake with growth 0 that moves its head onto a cell of the
\* grid holding an apple has, after the tick, that apple gone from the apple
\* set, its growth raised by the apple's growth, its health changed by the
\* apple's health minus the cost of the move, health left, and its length
\* unchanged.
C4_AppleConsumption ==
    (/\ last.op = "move"
     /\ Before.growth = 0
     /\ Before.health > 0
     /\ OnGrid(last.target)
     /\ last.target \in game_apples(last.pre))
    => \E apple \in last.pre.apples :
          /\ apple.location = last.target
          /\ apple.id \notin {a.id : a \in apples}
          /\ apples \cap last.pre.apples = last.pre.apples \ {apple}
          /\ snakes[1].growth = Before.growth + apple.growth
          /\ snakes[1].health = Before.health + apple.health - cost
          /\ snakes[1].health > 0
          /\ Len(snakes[1].body) = Len(Before.body)

C4_Witness ==
    /\ last.op = "move"
    /\ Before.growth = 0
    /\ Before.health > 0
    /\ \E apple \in Result.eaten : apple.location = last.target
    /\ snakes[1].growth = 1

\* C5: a tick whose head target is off the grid leaves the snake's health at
\* 0 and the apple set as it was, and changes no cell of the grid other than
\* marking the tail cell vacated by this move as empty.
C5_BoundaryTermination ==
    (last.op = "move" /\ ~OnGrid(last.target)) =>
        /\ snakes[1].health = 0
        /\ apples = last.pre.apples
        /\ \A c \in Cells(width, height) :
              empty[c] # last.pre.empty[c] =>
                  (c = snakes[1].previous_tail /\ empty[c])

C5_Witness ==
    /\ last.op = "move"
    /\ ~OnGrid(last.target)
    /\ snakes[1].health = 0
    /\ Truthy(snakes[1].previous_tail)
    /\ empty # last.pre.empty

C8_Termination ==
    <>(game_ended(Board, game_over) \/ Capped(Board) \/ raised # "none")

\* C9: a call of random_walk made when no neighbour of the head is an apple
\* position or an empty cell ends the game and changes neither the snake,
\* the apple set nor the grid.
C9_NoMovesAvailable ==
    (/\ last.op = "random_walk"
     /\ directions(last.pre) \cap
            (game_apples(last.pre) \cup empty_spaces(last.pre)) = {})
    => /\ game_ended(Board, game_over)
       /\ snakes = last.pre.snakes
       /\ apples = last.pre.apples
       /\ empty = last.pre.empty

C9_Witness ==
    /\ last.op = "random_walk"
    /\ directions(last.pre) \cap
           (game_apples(last.pre) \cup empty_spaces(last.pre)) = {}
    /\ ~last.over
    /\ game_over
    /\ snakes[1].health > 0

\* C10: once the game has ended, a later key press handled by handle_events
\* changes neither the snake nor the apple set, and the game stays ended.
C10_TerminalAbsorbing ==
    last.op = "handle_events" =>
        \A k \in 1 .. Len(last.trail) - 1 :
            game_ended(last.trail[k].board, last.over) =>
                /\ last.trail[k + 1].board.snakes = last.trail[k].board.snakes
                /\ last.trail[k + 1].board.apples = last.trail[k].board.apples
                /\ game_ended(last.trail[k + 1].board, last.over)

C16_ApplePriority ==
    (last.op = "random_walk" /\ Truthy(last.target)) =>
        /\ last.target \in directions(last.pre)
        /\ (directions(last.pre) \cap game_apples(last.pre) # {}
               => last.target \in game_apples(last.pre))
        /\ (last.target \notin game_apples(last.pre)
               => last.target \in empty_spaces(last.pre))

C16_Witness ==
    /\ last.op = "random_walk"
    /\ Truthy(last.target)
    /\ last.target \in game_apples(last.pre)
    /\ directions(last.pre) \cap empty_spaces(last.pre) # {}

C18_EndedIffNoHealth ==
    ended(Board) <=> (\A i \in DOMAIN snakes : snakes[i].health <= 0)

C12_OccupiedPlacementFails ==
    (/\ last.op \in {"add_apple_at", "add_snake_at"}
     /\ ~last.pre.empty[last.target])
    => /\ Result.raised = "RuntimeError"
       /\ apples = last.pre.apples
       /\ snakes = last.pre.snakes
       /\ empty = last.pre.empty
       /\ ended(Board) <=> ended(last.pre)

C12_Witness ==
    /\ last.op = "add_apple_at"
    /\ ~last.pre.empty[last.target]
    /\ last.target \in Segments(snakes[1])
    /\ Result.raised = "RuntimeError"

C19_DefaultMoveCost ==
    (/\ last.op = "move_default"
     /\ Before.health > 0
     /\ OnGrid(last.target)
     /\ Result.eaten = {}
     /\ ~empty[last.target])
    => snakes[1].health = Before.health - 1

====
